---- MODULE Spec2Model ----
(***************************************************************************)
(* Model of the in-memory stores of the mimica backend:                    *)
(*   - InMemoryTKFStore            (backend/src/tkf_store.py)              *)
(*   - InMemoryTestEventRepository (backend/src/event_store.py)            *)
(* and of their callers: the update_tkf tool (backend/src/tkf.py) and the   *)
(* KnowledgeGenerator (backend/src/knowledge_generator.py).                *)
(*                                                                         *)
(* The backend is a single asyncio event loop.  A coroutine runs without   *)
(* interruption from one suspension point to the next, so one action of    *)
(* this model is one such run.  The only suspension points of add_update   *)
(* are the two call_llm awaits: asyncio.Lock.acquire does not suspend when *)
(* the lock is free, and no critical section of the store contains an      *)
(* await.                                                                  *)
(*                                                                         *)
(* A text is a sequence of one-character strings.                          *)
(***************************************************************************)
EXTENDS Integers, Sequences, FiniteSets, TLC

\* ------------------------------------------------------------------ bounds

\* capacity passed to InMemoryTKFStore(max_updates=...)
max_updates == 3
\* total number of add_update calls explored
MaxCalls == 4
\* capacity passed to InMemoryTestEventRepository(max_events=...)
max_events == 3
\* total number of add_event calls explored
MaxEventCalls == 4
\* total number of seed calls explored
MaxSeeds == 1
\* total number of update_tkf calls explored
MaxToolCalls == 2
\* total number of generate_knowledge calls explored
MaxBatches == 3

\* number of add_update coroutines that may be suspended at the same time
MaxConcurrent == 2
\* offsets and limits of the page reads range over -MaxPageArg..MaxPageArg
MaxPageArg == 5

\* ------------------------------------------------------------------ texts

Whitespace == {" ", "\n"}

RECURSIVE lstrip(_)
lstrip(s) ==
    IF s = <<>> THEN s
    ELSE IF Head(s) \in Whitespace THEN lstrip(Tail(s)) ELSE s

RECURSIVE rstrip(_)
rstrip(s) ==
    IF s = <<>> THEN s
    ELSE IF s[Len(s)] \in Whitespace THEN rstrip(SubSeq(s, 1, Len(s) - 1)) ELSE s

strip(s) == rstrip(lstrip(s))

StartsWith(s, p) == Len(p) <= Len(s) /\ SubSeq(s, 1, Len(p)) = p

\* Python's `p in s`
Contains(s, p) ==
    \E i \in 1..(Len(s) - Len(p) + 1) : SubSeq(s, i, i + Len(p) - 1) = p

\* Python's s.replace(old, new): every non-overlapping occurrence, leftmost
\* first; an empty `old` matches before every character and at the end.
RECURSIVE str_replace(_, _, _)
str_replace(s, old, new) ==
    IF old = <<>>
    THEN IF s = <<>> THEN new
         ELSE new \o <<Head(s)>> \o str_replace(Tail(s), old, new)
    ELSE IF s = <<>> THEN <<>>
    ELSE IF StartsWith(s, old)
         THEN new \o str_replace(SubSeq(s, Len(old) + 1, Len(s)), old, new)
         ELSE <<Head(s)>> \o str_replace(Tail(s), old, new)

Max(a, b) == IF a >= b THEN a ELSE b
Min(a, b) == IF a <= b THEN a ELSE b

\* Python's normalisation of a slice bound for a list of length n: a negative
\* bound counts from the end, and the result is clamped to 0..n
SliceBound(i, n) == IF i < 0 THEN Max(i + n, 0) ELSE Min(i, n)

\* Python's seq[start:end] (elements are numbered from 0)
Slice(seq, start, end) ==
    SubSeq(seq, SliceBound(start, Len(seq)) + 1, SliceBound(end, Len(seq)))

\* the texts callers submit
OldTexts == { <<>>, <<" ">>, <<"a">> }
NewTexts == { <<" ">>, <<"a">>, <<" ", "b">> }

\* ------------------------------------------------------------------ state

VARIABLES
    updates,            \* InMemoryTKFStore._updates, the update history
    full_content,       \* InMemoryTKFStore._full_content
    lock,               \* InMemoryTKFStore._lock: "unlocked" or "locked"
    coroutines,         \* the suspended add_update coroutines, by call number:
                        \* the await each is suspended at and its locals
    calls,              \* observer: one record per add_update call, in call order
    _max_updates,       \* InMemoryTKFStore._max_updates
    events,             \* InMemoryTestEventRepository._events
    group_id_index,     \* InMemoryTestEventRepository._group_id_index
    persona_id_index,   \* InMemoryTestEventRepository._persona_id_index
    session_id_index,   \* InMemoryTestEventRepository._session_id_index
    event_calls,        \* observer: the result of each add_event call
    seeds,              \* one record per seed call, in call order: its input,
                        \* where it stands and the formatter's output
    tool_calls,         \* one record per update_tkf call, in call order: its
                        \* arguments, where it stands and its locals
    generator,          \* the KnowledgeGenerator at work: where its
                        \* generate_knowledge call stands and its locals
    workflow            \* the Workflow.process_run call: where it stands and
                        \* its locals

tkf_vars == <<updates, full_content, lock, coroutines, calls, _max_updates>>
event_vars == <<events, group_id_index, persona_id_index, session_id_index,
                event_calls>>
\* what the add_update coroutines leave alone, and what add_event does
non_tkf_vars == <<event_vars, seeds, tool_calls, generator, workflow>>
non_event_vars == <<tkf_vars, seeds, tool_calls, generator, workflow>>
vars == <<tkf_vars, event_vars, seeds, tool_calls, generator, workflow>>

\* ------------------------------------------------------------------ TKF store

\* what call_llm gives a check: the value of `"true" in response.lower()`,
\* or "error" when the call raises
Answers == {"true", "false", "error"}

\* variant with the bug: a failed call_llm is caught and taken for "no"
RaisesSwallowed(answer) == FALSE

\* tkf_store.py:95, 122, 152, 158  a call_llm that raises: neither check nor
\* add_update catches the exception
Raises(answer) == answer = "error"

\* variant with the bug `>` for `>=`: one update too many is let in
IsFullOffByOne(history) == Len(history) > _max_updates

\* tkf_store.py:128  len(self._updates) >= self._max_updates
IsFull(history) == Len(history) >= _max_updates

\* variant with the bug: an update with nothing to add is not logged
LogUpdateSkipsEmpty(history, update) ==
    IF strip(update.new_text) = <<>> THEN history ELSE Append(history, update)

\* variant with the bug: insert(0, update) for append(update)
LogUpdateAtFront(history, update) == <<update>> \o history

\* tkf_store.py:133  self._updates.append(update)
LogUpdate(history, update) == Append(history, update)

\* variant with the bug: any old_text replaces, found in the content or not
ShouldReplaceUnmatched(old_text, content) == old_text # <<>>

\* tkf_store.py:142  update.old_text and update.old_text.strip() in self._full_content
ShouldReplace(old_text, content) ==
    old_text # <<>> /\ Contains(content, strip(old_text))

\* variant with the bug: the replacement is tried before the empty test
FirstPhaseReplaceFirst(update, content) ==
    IF ShouldReplace(update.old_text, content) THEN "REPLACED"
    ELSE IF strip(update.new_text) = <<>> THEN "REJECTED_EMPTY"
    ELSE "PENDING"

\* tkf_store.py:135-148  the order of the early exits of the first locked phase
FirstPhase(update, content) ==
    IF strip(update.new_text) = <<>> THEN "REJECTED_EMPTY"
    ELSE IF ShouldReplace(update.old_text, content) THEN "REPLACED"
    ELSE "PENDING"

\* tkf_store.py:144  self._full_content.replace(update.old_text.strip(), new_text)
ReplaceText(content, old_text, new_text) ==
    str_replace(content, strip(old_text), new_text)

\* variant with the bug: the service is asked also about a blank content
ChecksTrivialNever(existing_content) == FALSE

\* tkf_store.py:76-77, 103-104  `if not existing_content.strip(): return False`
ChecksTrivial(existing_content) == strip(existing_content) = <<>>

\* variant with the bug: the duplicate check's answer is ignored
RejectsDuplicateNever(is_duplicate) == FALSE

\* tkf_store.py:153  if is_duplicate
RejectsDuplicate(is_duplicate) == is_duplicate = "true"

\* variant with the bug: the conflict check's answer is ignored
RejectsConflictNever(has_conflict) == FALSE

\* tkf_store.py:159  if has_conflict
RejectsConflict(has_conflict) == has_conflict = "true"

\* variant with the bug: the append extends the snapshot (a lost update)
AppendBaseSnapshot(content, current_content) == current_content

\* tkf_store.py:166-167  the text the final append extends: the content held
\* by the store when the lock is re-acquired, not the snapshot
AppendBase(content, current_content) == content

\* variant with the bug: the new text takes the place of the content
AppendTextOverwrites(content, new_text) == new_text

\* tkf_store.py:166-169
AppendText(content, new_text) ==
    IF content # <<>> THEN rstrip(content) \o <<"\n", "\n">> \o new_text
    ELSE new_text

\* Python's None, a value no metadata string equals
None == "<None>"

\* tkf.py:133  metadata={}: the update_tkf tool attaches no metadata
NoMetadata == <<>>

\* main.py:24-27  metadata a direct caller attaches: session_id and
\* persona_id keys; the field is a plain dict, so a value may be None
Metadatas ==
    { NoMetadata,
      [session_id |-> "123"],
      [session_id |-> "456"],
      [session_id |-> None],
      [session_id |-> "123", persona_id |-> "456"] }

\* variant with the bug: the checks are awaited inside the `async with` block
LockDuringChecksHeld == "locked"

\* tkf_store.py:127-148  the first `async with self._lock` block ends with the
\* snapshot: the lock is free when add_update awaits its checks
LockDuringChecks == "unlocked"

\* observer record of one call: its outcome, the snapshot it took (if any),
\* what each check answered ("none": not invoked, "trivial": False without a
\* call_llm, "pending": awaiting call_llm) and whether it changed the content
NewCall(outcome, snapshot, dup, conflict, changed) ==
    [outcome |-> outcome, current_content |-> snapshot, is_duplicate |-> dup,
     has_conflict |-> conflict, changed |-> changed]

Suspend(id, frame) == (id :> frame) @@ coroutines

Resume(id) == [i \in DOMAIN coroutines \ {id} |-> coroutines[i]]

\* tkf_store.py:125-170  add_update from the call to its first suspension
\* (the call_llm of _is_duplicate) or, with no suspension, to its return:
\* what it does to the store
add_update(old_text, new_text, metadata) ==
    /\ Len(calls) < MaxCalls
    /\ Cardinality(DOMAIN coroutines) < MaxConcurrent
    /\ lock = "unlocked"
    /\ UNCHANGED _max_updates
    /\ LET id == Len(calls) + 1
           update == [id |-> id, old_text |-> old_text, new_text |-> new_text,
                      metadata |-> metadata]
           text == strip(new_text)
           phase == FirstPhase(update, full_content)
       IN  /\ lock' = IF /\ ~IsFull(updates) /\ phase = "PENDING"
                         /\ ~ChecksTrivial(full_content)
                      THEN LockDuringChecks ELSE "unlocked"
           /\ IF IsFull(updates)
              THEN /\ calls' = Append(calls, NewCall("TKFStoreFullError",
                                  <<>>, "none", "none", FALSE))
                   /\ UNCHANGED <<updates, full_content, coroutines>>
              ELSE /\ updates' = LogUpdate(updates, update)
                   /\ CASE phase = "REJECTED_EMPTY" ->
                             /\ calls' = Append(calls, NewCall(phase,
                                            <<>>, "none", "none", FALSE))
                             /\ UNCHANGED <<full_content, coroutines>>
                        [] phase = "REPLACED" ->
                             /\ full_content' =
                                    ReplaceText(full_content, old_text, text)
                             /\ calls' = Append(calls, NewCall(phase,
                                            <<>>, "none", "none",
                                            full_content' # full_content))
                             /\ UNCHANGED coroutines
                        [] phase = "PENDING" /\ ChecksTrivial(full_content) ->
                             \* both checks return False without a call_llm
                             /\ full_content' = AppendText(
                                    AppendBase(full_content, full_content), text)
                             /\ calls' = Append(calls, NewCall("APPENDED",
                                            full_content, "trivial", "trivial",
                                            full_content' # full_content))
                             /\ UNCHANGED coroutines
                        [] OTHER ->
                             /\ coroutines' = Suspend(id,
                                    [await |-> "_is_duplicate",
                                     new_text |-> text,
                                     current_content |-> full_content])
                             /\ calls' = Append(calls, NewCall("PENDING",
                                            full_content, "pending", "none",
                                            FALSE))
                             /\ UNCHANGED full_content

\* add_update called directly
AddUpdate(old_text, new_text, metadata) ==
    /\ add_update(old_text, new_text, metadata)
    /\ UNCHANGED non_tkf_vars

\* tkf_store.py:152-158  the call_llm of _is_duplicate returns or raises; on
\* "false" add_update goes on to the call_llm of _has_conflict
IsDuplicateReturns(id, answer) ==
    /\ id \in DOMAIN coroutines
    /\ coroutines[id].await = "_is_duplicate"
    /\ IF Raises(answer)
       THEN /\ calls' = [calls EXCEPT ![id].outcome = "LLM_ERROR",
                                      ![id].is_duplicate = answer]
            /\ coroutines' = Resume(id)
       ELSE IF RejectsDuplicate(answer)
       THEN /\ calls' = [calls EXCEPT ![id].outcome = "REJECTED_DUPLICATE",
                                      ![id].is_duplicate = answer]
            /\ coroutines' = Resume(id)
       ELSE /\ calls' = [calls EXCEPT ![id].is_duplicate = answer,
                                      ![id].has_conflict = "pending"]
            /\ coroutines' = [coroutines EXCEPT ![id].await = "_has_conflict"]
    /\ UNCHANGED <<updates, full_content, lock, _max_updates, non_tkf_vars>>

\* tkf_store.py:158-170  the call_llm of _has_conflict returns or raises; on
\* "false" add_update re-acquires the lock and appends
HasConflictReturns(id, answer) ==
    /\ id \in DOMAIN coroutines
    /\ coroutines[id].await = "_has_conflict"
    /\ coroutines' = Resume(id)
    /\ IF Raises(answer)
       THEN /\ calls' = [calls EXCEPT ![id].outcome = "LLM_ERROR",
                                      ![id].has_conflict = answer]
            /\ UNCHANGED <<full_content, lock>>
       ELSE IF RejectsConflict(answer)
       THEN /\ calls' = [calls EXCEPT ![id].outcome = "REJECTED_CONFLICT",
                                      ![id].has_conflict = answer]
            /\ UNCHANGED <<full_content, lock>>
       ELSE /\ lock = "unlocked"
            /\ lock' = "unlocked"
            /\ full_content' = AppendText(
                   AppendBase(full_content, coroutines[id].current_content),
                   coroutines[id].new_text)
            /\ calls' = [calls EXCEPT ![id].outcome = "APPENDED",
                                      ![id].has_conflict = answer,
                                      ![id].changed =
                                          full_content' # full_content]
    /\ UNCHANGED <<updates, _max_updates, non_tkf_vars>>

\* ------------------------------------------------------------------ seed

Digits == {"0", "1"}

\* json.loads succeeds: of the texts over the characters the callers use, the
\* JSON texts are the empty list and the integers, with whitespace around
IsJson(raw_content) ==
    LET text == strip(raw_content)
    IN  \/ text = <<"[", "]">>
        \/ text # <<>> /\ \A i \in 1..Len(text) : text[i] \in Digits

\* what callers pass to seed: a JSON list (workflow.py:74-76) and a
\* pre-formatted text (main.py:16)
SeedInputs == { <<"[", "]">>, <<"a">> }

\* what Runner.run gives the formatter as final_output
FormatterOutputs == { <<"a">>, <<"c">> }

\* variant with the bug: a store that holds content is not seeded again
SeedContentKeepsExisting(content, processed_content) ==
    IF content # <<>> THEN content ELSE processed_content

\* tkf_store.py:209  self._full_content = processed_content
SeedContent(content, processed_content) == processed_content

\* tkf_store.py:206-207, 187-198  seed up to the Runner.run of
\* _format_seed_content; json.loads raises on a text that is not JSON
Seed(raw_content) ==
    /\ Len(seeds) < MaxSeeds
    /\ seeds' = Append(seeds,
           [raw_content |-> raw_content,
            outcome |-> IF IsJson(raw_content) THEN "PENDING"
                        ELSE "JSONDecodeError",
            formatter_called |-> IsJson(raw_content),
            final_output |-> <<>>])
    /\ UNCHANGED <<tkf_vars, event_vars, tool_calls, generator, workflow>>

\* tkf_store.py:198-209  Runner.run returns: seed takes the lock and stores
\* the output
FormatSeedContentReturns(k, final_output) ==
    /\ k \in 1..Len(seeds)
    /\ seeds[k].outcome = "PENDING"
    /\ lock = "unlocked"
    /\ lock' = "unlocked"
    /\ full_content' = SeedContent(full_content, final_output)
    /\ seeds' = [seeds EXCEPT ![k].outcome = "SEEDED",
                              ![k].final_output = final_output]
    /\ UNCHANGED <<updates, coroutines, calls, _max_updates, event_vars,
                   tool_calls, generator, workflow>>

\* tkf_store.py:198-207  Runner.run raises: the error leaves seed before the
\* lock is taken
FormatSeedContentRaises(k) ==
    /\ k \in 1..Len(seeds)
    /\ seeds[k].outcome = "PENDING"
    /\ seeds' = [seeds EXCEPT ![k].outcome = "LLM_ERROR"]
    /\ UNCHANGED <<tkf_vars, event_vars, tool_calls, generator, workflow>>

\* ------------------------------------------------------------------ update_tkf

\* tkf.py:35-36, 69-70  `if not existing_content.strip(): return False`: what
\* a check of the tool can answer for the content it is given
ToolAnswers(existing_content) ==
    IF strip(existing_content) = <<>> THEN {"false"} ELSE Answers

\* tkf.py:119-122  update_tkf up to its suspension in asyncio.gather: it has
\* read the full content and started its own two checks on it
UpdateTkf(old_text, new_text) ==
    /\ Len(tool_calls) < MaxToolCalls
    /\ lock = "unlocked"
    /\ tool_calls' = Append(tool_calls,
           [old_text |-> old_text, new_text |-> new_text,
            content |-> full_content, await |-> "gather",
            is_duplicate |-> "pending", has_conflict |-> "pending",
            add_update |-> 0])
    /\ UNCHANGED <<tkf_vars, event_vars, seeds, generator, workflow>>

\* tkf.py:122-136  asyncio.gather returns the two answers or raises the
\* error of a failed check; on a "true" the tool returns False, otherwise it
\* builds the update and calls add_update, which runs to its first suspension
GatherReturns(k, is_duplicate, has_conflict) ==
    /\ k \in 1..Len(tool_calls)
    /\ tool_calls[k].await = "gather"
    /\ is_duplicate \in ToolAnswers(tool_calls[k].content)
    /\ has_conflict \in ToolAnswers(tool_calls[k].content)
    /\ IF Raises(is_duplicate) \/ Raises(has_conflict)
       THEN /\ tool_calls' = [tool_calls EXCEPT
                   ![k].await = "raised",
                   ![k].is_duplicate = is_duplicate,
                   ![k].has_conflict = has_conflict]
            /\ UNCHANGED tkf_vars
       ELSE IF is_duplicate = "true" \/ has_conflict = "true"
       THEN /\ tool_calls' = [tool_calls EXCEPT
                   ![k].await = "returned False",
                   ![k].is_duplicate = is_duplicate,
                   ![k].has_conflict = has_conflict]
            /\ UNCHANGED tkf_vars
       ELSE /\ add_update(tool_calls[k].old_text, tool_calls[k].new_text,
                          NoMetadata)
            /\ tool_calls' = [tool_calls EXCEPT
                   ![k].await = "add_update",
                   ![k].is_duplicate = is_duplicate,
                   ![k].has_conflict = has_conflict,
                   ![k].add_update = Len(calls')]
    /\ UNCHANGED <<event_vars, seeds, generator, workflow>>

\* tkf.py:135-136  what the update_tkf call k has returned: True once its
\* add_update call returned, whatever that call did
ReturnValue(k) ==
    LET call == tool_calls[k]
    IN  IF call.await = "returned False" THEN "False"
        ELSE IF call.await = "raised" THEN "raised"
        ELSE IF call.await = "gather" THEN "pending"
        ELSE CASE calls[call.add_update].outcome = "PENDING" -> "pending"
               [] calls[call.add_update].outcome
                      \in {"LLM_ERROR", "TKFStoreFullError"} -> "raised"
               [] OTHER -> "True"

\* ------------------------------------------------------------------ knowledge generator

\* The generator's response is a sequence of tokens: the two fence markers,
\* the brackets of a JSON list, knowledge items and prose.
\* JsonFence is the marker of three backquotes followed by json, Fence the
\* marker of three backquotes alone.
JsonFence == "fence-json"
Fence == "fence"
KnowledgeItems == {"k1", "k2"}

\* the position of the first token from position from_ on that contains
\* the three backquotes, or 0 (str.find's -1) when there is none
FindFence(text, from_) ==
    LET found == { i \in from_..Len(text) : text[i] \in {Fence, JsonFence} }
    IN  IF found = {} THEN 0
        ELSE CHOOSE i \in found : \A j \in found : i <= j

\* knowledge_generator.py:91-101  the text between the fences, if any.  With
\* a JsonFence and no closing fence, find gives -1 and the slice
\* [json_start:-1] drops the end of the text (here: its last token).
StripFences(response_text) ==
    IF \E i \in 1..Len(response_text) : response_text[i] = JsonFence
    THEN LET json_start ==
                 1 + CHOOSE i \in 1..Len(response_text) :
                         /\ response_text[i] = JsonFence
                         /\ \A j \in 1..(i - 1) : response_text[j] # JsonFence
             json_end == FindFence(response_text, json_start)
         IN  IF json_end = 0
             THEN SubSeq(response_text, json_start, Len(response_text) - 1)
             ELSE SubSeq(response_text, json_start, json_end - 1)
    ELSE IF \E i \in 1..Len(response_text) : response_text[i] = Fence
    THEN LET json_start == 1 + FindFence(response_text, 1)
             json_end == FindFence(response_text, json_start)
         IN  IF json_end > json_start
             THEN SubSeq(response_text, json_start, json_end - 1)
             ELSE response_text
    ELSE response_text

\* knowledge_generator.py:103  json.loads succeeds and gives a list
IsJsonItemList(response_text) ==
    /\ Len(response_text) >= 2
    /\ response_text[1] = "[" /\ response_text[Len(response_text)] = "]"
    /\ \A i \in 2..(Len(response_text) - 1) :
           response_text[i] \in KnowledgeItems

\* knowledge_generator.py:103-104  the items of the list, one text each
KnowledgeList(response_text) ==
    SubSeq(response_text, 2, Len(response_text) - 1)

\* what call_llm gives _generate_knowledge
Responses ==
    { <<"[", "k1", "k2", "]">>,
      <<"[", "k2", "k1", "k2", "]">>,
      <<JsonFence, "[", "k1", "]", Fence>>,
      <<Fence, "[", "]", Fence>>,
      <<"prose">> }

\* knowledge_generator.py:89-90  a KnowledgeGenerator whose generate_knowledge
\* has run up to the call_llm of _generate_knowledge
NewGenerator(batch) ==
    [batch |-> batch, pc |-> "_generate_knowledge", llm_response |-> <<>>,
     knowledge_list |-> <<>>, responses |-> <<>>, answers |-> <<>>,
     validated_knowledge |-> <<>>]

\* variant with the bug: a response that is not JSON counts as an empty list
AfterGenerationSwallows(g, llm_response) ==
    LET response_text == StripFences(llm_response)
    IN  IF ~IsJsonItemList(response_text)
        THEN [g EXCEPT !.llm_response = llm_response, !.pc = "returned"]
        ELSE [g EXCEPT
                 !.llm_response = llm_response,
                 !.knowledge_list = KnowledgeList(response_text),
                 !.pc = IF KnowledgeList(response_text) = <<>>
                        THEN "returned" ELSE "_is_valid_knowledge_item"]

\* knowledge_generator.py:90-105, 69-80  the generator g after its response
\* arrived: the fences are stripped and the text parsed, which raises when
\* it is not JSON; the validation loop runs to the call_llm for the first
\* candidate, or returns when there is none
AfterGeneration(g, llm_response) ==
    LET response_text == StripFences(llm_response)
    IN  IF ~IsJsonItemList(response_text)
        THEN [g EXCEPT !.llm_response = llm_response, !.pc = "raised"]
        ELSE [g EXCEPT
                 !.llm_response = llm_response,
                 !.knowledge_list = KnowledgeList(response_text),
                 !.pc = IF KnowledgeList(response_text) = <<>>
                        THEN "returned" ELSE "_is_valid_knowledge_item"]

\* knowledge_generator.py:45-47, 90  the generator g after its call_llm raised
AfterGenerationError(g) == [g EXCEPT !.pc = "raised"]

\* Python's str.lower() on the letters the responses use
LowerCase == [c \in {"T", "R", "U", "E"} |->
                 CASE c = "T" -> "t" [] c = "R" -> "r"
                   [] c = "U" -> "u" [] c = "E" -> "e"]
lower(s) ==
    [i \in 1..Len(s) |-> IF s[i] \in DOMAIN LowerCase THEN LowerCase[s[i]]
                          ELSE s[i]]

\* what call_llm gives the validator: a response text, or it raises
ValidatorResponses ==
    { <<"T", "r", "u", "e">>,
      <<"f", "a", "l", "s", "e">>,
      <<"u", "n", "t", "r", "u", "e">> }
ValidatorOutcomes ==
    { [raised |-> TRUE, response |-> <<>>] }
    \cup { [raised |-> FALSE, response |-> r] : r \in ValidatorResponses }

\* variant with the bug: the response is not lower-cased
IsValidKnowledgeItemCaseSensitive(response) ==
    Contains(response, <<"t", "r", "u", "e">>)

\* knowledge_generator.py:67  return "true" in response.lower()
IsValidKnowledgeItem(response) ==
    Contains(lower(response), <<"t", "r", "u", "e">>)

\* the validator call's outcome as one of Answers
AnswerOf(outcome) ==
    IF outcome.raised THEN "error"
    ELSE IF IsValidKnowledgeItem(outcome.response) THEN "true" ELSE "false"

\* knowledge_generator.py:66-67, 80-87  the generator g after the validator's
\* call_llm for the current candidate returned or raised: the error is not
\* caught, a "true" keeps the candidate, and the loop goes on to the next
\* candidate or returns
AfterValidator(g, outcome) ==
    LET i == Len(g.answers) + 1
        knowledge_item == g.knowledge_list[i]
        answer == AnswerOf(outcome)
    IN  [g EXCEPT
            !.responses = Append(@, outcome.response),
            !.answers = Append(@, answer),
            !.validated_knowledge =
                IF answer = "true" THEN Append(@, knowledge_item) ELSE @,
            !.pc = IF Raises(answer) THEN "raised"
                   ELSE IF i = Len(g.knowledge_list)
                   THEN "returned" ELSE @]

\* generate_knowledge called on a KnowledgeGenerator of its own
GenerateKnowledge ==
    /\ workflow.pc = "idle"
    /\ generator.pc \in {"idle", "returned", "raised"}
    /\ generator.batch < MaxBatches
    /\ generator' = NewGenerator(generator.batch + 1)
    /\ UNCHANGED <<tkf_vars, event_vars, seeds, tool_calls, workflow>>

GenerationReturns(llm_response) ==
    /\ workflow.pc = "idle"
    /\ generator.pc = "_generate_knowledge"
    /\ generator' = AfterGeneration(generator, llm_response)
    /\ UNCHANGED <<tkf_vars, event_vars, seeds, tool_calls, workflow>>

GenerationRaises ==
    /\ workflow.pc = "idle"
    /\ generator.pc = "_generate_knowledge"
    /\ generator' = AfterGenerationError(generator)
    /\ UNCHANGED <<tkf_vars, event_vars, seeds, tool_calls, workflow>>

ValidatorReturns(outcome) ==
    /\ workflow.pc = "idle"
    /\ generator.pc = "_is_valid_knowledge_item"
    /\ generator' = AfterValidator(generator, outcome)
    /\ UNCHANGED <<tkf_vars, event_vars, seeds, tool_calls, workflow>>

\* ------------------------------------------------------------------ event store

\* the events callers submit: TestEvent's id and its three keys (the other
\* fields are stored and never read by the repository)
EventIds == {"e1", "e2"}
GroupIds == {"g1", "g2"}
PersonaIds == {"p1", "p2"}
SessionIds == {"s1", "s2"}
TestEvents == [id : EventIds, session_id : SessionIds,
               persona_id : PersonaIds, group_id : GroupIds]

\* variant with the bug `>` for `>=`
EventStoreIsFullOffByOne(evts) == Len(evts) > max_events

\* event_store.py:71  len(self._events) >= self._max_events
EventStoreIsFull(evts) == Len(evts) >= max_events

\* variant with the bug: the length is taken for the position
NewIndexIsLength(evts) == Len(evts)

\* event_store.py:76  index = len(self._events) - 1, taken after the append
NewIndex(evts) == Len(evts) - 1

\* event_store.py:77-79  create the key's list if missing, append the index
IndexAppend(index_map, key, index) ==
    IF key \in DOMAIN index_map
    THEN [index_map EXCEPT ![key] = Append(@, index)]
    ELSE (key :> <<index>>) @@ index_map

\* event_store.py:69-85  add_event; its critical section holds no await, so
\* the repository's lock is free whenever a call starts
AddEvent(event) ==
    /\ Len(event_calls) < MaxEventCalls
    /\ IF EventStoreIsFull(events)
       THEN /\ event_calls' = Append(event_calls, "EventStoreFullError")
            /\ UNCHANGED <<events, group_id_index, persona_id_index,
                           session_id_index>>
       ELSE /\ events' = Append(events, event)
            /\ LET index == NewIndex(events')
               IN  /\ group_id_index' =
                          IndexAppend(group_id_index, event.group_id, index)
                   /\ persona_id_index' =
                          IndexAppend(persona_id_index, event.persona_id, index)
                   /\ session_id_index' =
                          IndexAppend(session_id_index, event.session_id, index)
            /\ event_calls' = Append(event_calls, "ok")
    /\ UNCHANGED non_event_vars

\* ------------------------------------------------------------------ reads

\* variant with the bug: the offset is used as given
PageStartUnclamped(offset) == offset

\* event_store.py:94, tkf_store.py:179  start = max(offset, 0)
PageStart(offset) == Max(offset, 0)

\* event_store.py:95, tkf_store.py:180  end = start + max(limit, 0)
PageEnd(start, limit) == start + Max(limit, 0)

\* event_store.py:87-96  get_events: the page and the total
GetEvents(offset, limit) ==
    LET total == Len(events)
        start == PageStart(offset)
        end == PageEnd(start, limit)
    IN  <<Slice(events, start, end), total>>

\* tkf_store.py:172-181  get_updates: the page and the total
GetUpdates(offset, limit) ==
    LET total == Len(updates)
        start == PageStart(offset)
        end == PageEnd(start, limit)
    IN  <<Slice(updates, start, end), total>>

\* Python's d.get(key, default)
DictGet(d, key, default) == IF key \in DOMAIN d THEN d[key] ELSE default

\* event_store.py:101, 106, 111  [self._events[i] for i in indices]: the
\* events at the positions (counted from 0, a negative one from the end), or
\* IndexError when a position is outside the list
EventsAt(indices) ==
    LET n == Len(events)
    IN  IF \A j \in 1..Len(indices) : indices[j] \in (0 - n)..(n - 1)
        THEN [raised |-> "none",
              value |-> [j \in 1..Len(indices) |->
                            events[(IF indices[j] < 0 THEN indices[j] + n
                                    ELSE indices[j]) + 1]]]
        ELSE [raised |-> "IndexError", value |-> <<>>]

\* variant with the bug: the persona index is read for the group index
GetEventsByGroupIdOtherIndex(group_id) ==
    EventsAt(DictGet(persona_id_index, group_id, <<>>))

\* event_store.py:98-101
GetEventsByGroupId(group_id) ==
    EventsAt(DictGet(group_id_index, group_id, <<>>))

\* event_store.py:103-106
GetEventsByPersonaId(persona_id) ==
    EventsAt(DictGet(persona_id_index, persona_id, <<>>))

\* event_store.py:108-111
GetEventsBySessionId(session_id) ==
    EventsAt(DictGet(session_id_index, session_id, <<>>))

\* the filters callers pass: a dict, whose values may be None
MetadataFilters ==
    { <<>>,
      [session_id |-> "123"],
      [session_id |-> None],
      [persona_id |-> "456"],
      [session_id |-> "123", persona_id |-> "456"] }

\* tkf_store.py:213  all(update.metadata.get(key) == value for key, value in
\* metadata_filter.items()); dict.get gives None for a missing key
MatchesFilter(update, metadata_filter) ==
    \A key \in DOMAIN metadata_filter :
        DictGet(update.metadata, key, None) = metadata_filter[key]

\* tkf_store.py:211-213
GetUpdatesByMetadataFilter(metadata_filter) ==
    SelectSeq(updates, LAMBDA update : MatchesFilter(update, metadata_filter))

\* ------------------------------------------------------------------ workflow

\* the personas of the persona directory, and a persona id it does not hold
KnownPersonas == PersonaIds
UnknownPersona == "p0"

\* workflow.py:85-89  the events grouped by persona_id, a dict that keeps the
\* order in which the personas first occur: a sequence of pairs here
RECURSIVE GroupByPersona(_, _)
GroupByPersona(evts, event_by_persona) ==
    IF evts = <<>> THEN event_by_persona
    ELSE LET event == Head(evts)
             at == { j \in 1..Len(event_by_persona) :
                       event_by_persona[j].persona_id = event.persona_id }
         IN  GroupByPersona(Tail(evts),
                 IF at = {}
                 THEN Append(event_by_persona,
                             [persona_id |-> event.persona_id,
                              events |-> <<event>>])
                 ELSE [j \in 1..Len(event_by_persona) |->
                          IF j \in at
                          THEN [event_by_persona[j] EXCEPT
                                    !.events = Append(@, event)]
                          ELSE event_by_persona[j]])

\* variant with the bug: a persona the directory does not know is processed
NextKnownPersonaAny(event_by_persona, p) ==
    IF p <= Len(event_by_persona) THEN p ELSE 0

\* workflow.py:93-96  the position of the first pair from position p on whose
\* persona the directory knows (the others are skipped), or 0
NextKnownPersona(event_by_persona, p) ==
    LET known == { j \in p..Len(event_by_persona) :
                     event_by_persona[j].persona_id \in KnownPersonas }
    IN  IF known = {} THEN 0
        ELSE CHOOSE j \in known : \A k \in known : j <= k

\* Python's "\n".join(knowledge)
RECURSIVE Join(_)
Join(knowledge) ==
    IF knowledge = <<>> THEN <<>>
    ELSE IF Len(knowledge) = 1 THEN knowledge
    ELSE <<Head(knowledge), "\n">> \o Join(Tail(knowledge))

\* workflow.py:92-101, 107-116  the persona loop of the run w from position
\* w.p on, g being the generator that was last at work: the next known
\* persona's generator runs to its call_llm; when no persona is left the
\* submission loop runs to the Runner.run of the first knowledge text, or
\* process_run returns when there is none
ContinueRun(w, g) ==
    \* submitted counts the knowledge texts handed to Runner.run so far
    LET q == NextKnownPersona(w.event_by_persona, w.p)
    IN  IF q # 0
        THEN /\ workflow' = [w EXCEPT !.pc = "generate_knowledge", !.p = q]
             /\ generator' = NewGenerator(g.batch + 1)
        ELSE /\ workflow' = [w EXCEPT
                    !.pc = IF w.knowledge_list = <<>> THEN "returned"
                           ELSE "Runner.run",
                    !.submitted = IF w.knowledge_list = <<>> THEN 0 ELSE 1,
                    !.p = Len(w.event_by_persona) + 1]
             /\ generator' = g

\* workflow.py:98-100  generate_knowledge of the current persona has moved to
\* g: its error leaves process_run, its result is joined and appended to
\* knowledge_list and the loop goes on, and otherwise the run stays suspended
\* in it
ResumeRun(g) ==
    IF g.pc = "raised"
    THEN /\ workflow' = [workflow EXCEPT
                !.pc = "raised",
                !.failed = workflow.event_by_persona[workflow.p].persona_id]
         /\ generator' = g
    ELSE IF g.pc = "returned"
    THEN ContinueRun([workflow EXCEPT
                         !.knowledge_list =
                             Append(@, Join(g.validated_knowledge)),
                         !.p = @ + 1], g)
    ELSE /\ generator' = g
         /\ UNCHANGED workflow

\* workflow.py:104-106, 82-99  process_run up to its first suspension
ProcessRun(group_id) ==
    /\ workflow.pc = "idle"
    /\ generator.pc = "idle"
    /\ ContinueRun([workflow EXCEPT
                       !.event_by_persona =
                           GroupByPersona(GetEventsByGroupId(group_id).value,
                                          <<>>),
                       !.p = 1], generator)
    /\ UNCHANGED <<tkf_vars, event_vars, seeds, tool_calls>>

\* the call_llm of the current persona's generator returns
RunGenerationReturns(llm_response) ==
    /\ workflow.pc = "generate_knowledge"
    /\ generator.pc = "_generate_knowledge"
    /\ ResumeRun(AfterGeneration(generator, llm_response))
    /\ UNCHANGED <<tkf_vars, event_vars, seeds, tool_calls>>

\* the call_llm of the current persona's generator raises
RunGenerationRaises ==
    /\ workflow.pc = "generate_knowledge"
    /\ generator.pc = "_generate_knowledge"
    /\ ResumeRun(AfterGenerationError(generator))
    /\ UNCHANGED <<tkf_vars, event_vars, seeds, tool_calls>>

\* the validator's call_llm of the current persona's generator returns or
\* raises
RunValidatorReturns(outcome) ==
    /\ workflow.pc = "generate_knowledge"
    /\ generator.pc = "_is_valid_knowledge_item"
    /\ ResumeRun(AfterValidator(generator, outcome))
    /\ UNCHANGED <<tkf_vars, event_vars, seeds, tool_calls>>

\* workflow.py:112-116  the Runner.run of the orchestrator on the current
\* knowledge text returns: the loop goes on to the next text or ends
AgentRunReturns ==
    /\ workflow.pc = "Runner.run"
    /\ workflow' =
           IF workflow.submitted = Len(workflow.knowledge_list)
           THEN [workflow EXCEPT !.pc = "returned"]
           ELSE [workflow EXCEPT !.submitted = @ + 1]
    /\ UNCHANGED <<tkf_vars, event_vars, seeds, tool_calls, generator>>

\* workflow.py:112-116  the Runner.run of the orchestrator raises
AgentRunRaises ==
    /\ workflow.pc = "Runner.run"
    /\ workflow' = [workflow EXCEPT !.pc = "raised"]
    /\ UNCHANGED <<tkf_vars, event_vars, seeds, tool_calls, generator>>

\* ------------------------------------------------------------------ specifications

TKFInit ==
    /\ _max_updates = max_updates
    /\ updates = <<>>
    /\ full_content = <<>>
    /\ lock = "unlocked"
    /\ coroutines = <<>>
    /\ calls = <<>>

EventInit ==
    /\ events = <<>>
    /\ group_id_index = <<>>
    /\ persona_id_index = <<>>
    /\ session_id_index = <<>>
    /\ event_calls = <<>>

GeneratorInit ==
    generator = [batch |-> 0, pc |-> "idle", llm_response |-> <<>>,
                 knowledge_list |-> <<>>, responses |-> <<>>, answers |-> <<>>,
                 validated_knowledge |-> <<>>]

WorkflowInit ==
    workflow = [pc |-> "idle", event_by_persona |-> <<>>, p |-> 0,
                knowledge_list |-> <<>>, submitted |-> 0, failed |-> "none"]

Init ==
    /\ TKFInit /\ EventInit /\ seeds = <<>> /\ tool_calls = <<>>
    /\ GeneratorInit /\ WorkflowInit

Next ==
    \/ \E old_text \in OldTexts, new_text \in NewTexts :
           AddUpdate(old_text, new_text, NoMetadata)
    \/ \E id \in 1..MaxCalls, answer \in Answers : IsDuplicateReturns(id, answer)
    \/ \E id \in 1..MaxCalls, answer \in Answers : HasConflictReturns(id, answer)

\* the TKF store under concurrent add_update calls
Spec == Init /\ [][Next]_vars

EventNext == \E event \in TestEvents : AddEvent(event)

\* the event repository under add_event calls
EventSpec == Init /\ [][EventNext]_vars

\* the TKF store under seed calls and concurrent add_update calls that
\* append
SeedNext ==
    \/ AddUpdate(<<>>, <<"a">>, NoMetadata)
    \/ \E id \in 1..MaxCalls, answer \in Answers : IsDuplicateReturns(id, answer)
    \/ \E id \in 1..MaxCalls, answer \in Answers : HasConflictReturns(id, answer)
    \/ \E raw_content \in SeedInputs : Seed(raw_content)
    \/ \E k \in 1..MaxSeeds, final_output \in FormatterOutputs :
           FormatSeedContentReturns(k, final_output)
    \/ \E k \in 1..MaxSeeds : FormatSeedContentRaises(k)

SeedSpec == Init /\ [][SeedNext]_vars

\* utils.py:10-27, tkf_store.py:198-202  every call of the generative service
\* returns or raises, and the event loop then resumes the coroutine that
\* awaits it
ServiceCallsEnd ==
    /\ \A id \in 1..MaxCalls :
           WF_vars(\E answer \in Answers :
                      \/ IsDuplicateReturns(id, answer)
                      \/ HasConflictReturns(id, answer))
    /\ \A k \in 1..MaxSeeds :
           WF_vars(\/ FormatSeedContentReturns(k, <<"c">>)
                   \/ FormatSeedContentRaises(k))

\* add_update calls and seed calls of a JSON list
FairSeedNext ==
    \/ AddUpdate(<<>>, <<"a">>, NoMetadata)
    \/ \E id \in 1..MaxCalls, answer \in Answers : IsDuplicateReturns(id, answer)
    \/ \E id \in 1..MaxCalls, answer \in Answers : HasConflictReturns(id, answer)
    \/ Seed(<<"[", "]">>)
    \/ \E k \in 1..MaxSeeds : FormatSeedContentReturns(k, <<"c">>)
    \/ \E k \in 1..MaxSeeds : FormatSeedContentRaises(k)

\* the TKF store under add_update and seed calls whose service calls all end
FairSeedSpec == Init /\ [][FairSeedNext]_vars /\ ServiceCallsEnd

\* the three ways the content changes: an append, a replacement, a seed
ContentNext ==
    \/ AddUpdate(<<>>, <<"a">>, NoMetadata)
    \/ AddUpdate(<<"a">>, <<" ", "b">>, NoMetadata)
    \/ \E id \in 1..MaxCalls, answer \in Answers : IsDuplicateReturns(id, answer)
    \/ \E id \in 1..MaxCalls, answer \in Answers : HasConflictReturns(id, answer)
    \/ Seed(<<"[", "]">>)
    \/ \E k \in 1..MaxSeeds : FormatSeedContentReturns(k, <<"c">>)

ContentSpec == Init /\ [][ContentNext]_vars

\* a seed call on the fresh store and the add_update calls made after it:
\* appends and replacements that race the formatter
SeedRaceNext ==
    \/ Seed(<<"[", "]">>)
    \/ seeds # <<>> /\ AddUpdate(<<>>, <<"a">>, NoMetadata)
    \/ seeds # <<>> /\ AddUpdate(<<"a">>, <<" ", "b">>, NoMetadata)
    \/ \E id \in 1..MaxCalls, answer \in Answers : IsDuplicateReturns(id, answer)
    \/ \E id \in 1..MaxCalls, answer \in Answers : HasConflictReturns(id, answer)
    \/ \E k \in 1..MaxSeeds : FormatSeedContentReturns(k, <<"c">>)

SeedRaceSpec == Init /\ [][SeedRaceNext]_vars

\* the TKF store under concurrent update_tkf calls of the orchestrator
ToolNext ==
    \/ \E old_text \in OldTexts, new_text \in NewTexts :
           UpdateTkf(old_text, new_text)
    \/ \E k \in 1..MaxToolCalls, is_duplicate \in Answers,
          has_conflict \in Answers :
           GatherReturns(k, is_duplicate, has_conflict)
    \/ \E id \in 1..MaxCalls, answer \in Answers : IsDuplicateReturns(id, answer)
    \/ \E id \in 1..MaxCalls, answer \in Answers : HasConflictReturns(id, answer)

ToolSpec == Init /\ [][ToolNext]_vars

\* one KnowledgeGenerator after the other, as the workflow runs them
GeneratorNext ==
    \/ GenerateKnowledge
    \/ \E llm_response \in Responses : GenerationReturns(llm_response)
    \/ GenerationRaises
    \/ \E outcome \in ValidatorOutcomes : ValidatorReturns(outcome)

GeneratorSpec == Init /\ [][GeneratorNext]_vars

\* one run of the workflow over the events of a group; the events differ in
\* persona
WorkflowNext ==
    \/ \E persona_id \in PersonaIds \cup {UnknownPersona} :
           AddEvent([id |-> "e1", session_id |-> "s1",
                     persona_id |-> persona_id, group_id |-> "g1"])
    \/ \E group_id \in GroupIds : ProcessRun(group_id)
    \/ \E llm_response \in Responses : RunGenerationReturns(llm_response)
    \/ RunGenerationRaises
    \/ \E outcome \in ValidatorOutcomes : RunValidatorReturns(outcome)
    \/ AgentRunReturns
    \/ AgentRunRaises

WorkflowSpec == Init /\ [][WorkflowNext]_vars

\* both stores filled side by side; the events differ in id and persona, the
\* add_update calls are replacements of "a" by "a" (the first finds nothing
\* to replace and appends to the empty content), which return without a
\* call_llm
PageNext ==
    \/ \E id \in EventIds, persona_id \in PersonaIds :
           AddEvent([id |-> id, session_id |-> "s1",
                     persona_id |-> persona_id, group_id |-> "g1"])
    \/ AddUpdate(<<"a">>, <<"a">>, NoMetadata)

PageSpec == Init /\ [][PageNext]_vars

\* a history of updates carrying metadata: direct add_update calls that
\* return without a call_llm (an empty new_text, or "a" for "a": the first
\* finds nothing to replace and appends to the empty content)
HistoryNext ==
    \E new_text \in { <<" ">>, <<"a">> }, metadata \in Metadatas :
        AddUpdate(<<"a">>, new_text, metadata)

HistorySpec == Init /\ [][HistoryNext]_vars

\* the texts of the acceptance scenario, a sequence of words and blanks each
ShortForms == <<"Users", " ", "prefer", " ", "short", " ", "forms">>
LongForms == <<"Users", " ", "prefer", " ", "long", " ", "forms">>
StronglyShortForms ==
    <<"Users", " ", "strongly", " ", "prefer", " ", "short", " ", "forms">>

\* the four add_update calls of the acceptance scenario, in order
ScenarioUpdates ==
    << [old_text |-> <<>>, new_text |-> ShortForms],
       [old_text |-> <<>>, new_text |-> ShortForms],
       [old_text |-> <<>>, new_text |-> LongForms],
       [old_text |-> ShortForms, new_text |-> StronglyShortForms] >>

\* a store with room for the calls of the scenario
ScenarioInit ==
    /\ _max_updates = Len(ScenarioUpdates)
    /\ updates = <<>>
    /\ full_content = <<>>
    /\ lock = "unlocked"
    /\ coroutines = <<>>
    /\ calls = <<>>
    /\ EventInit /\ seeds = <<>> /\ tool_calls = <<>>
    /\ GeneratorInit /\ WorkflowInit

\* the calls of the scenario made in any order, each one after the one before
\* it has finished
ScenarioNext ==
    \/ \E k \in 1..Len(ScenarioUpdates) :
           /\ DOMAIN coroutines = {}
           /\ AddUpdate(ScenarioUpdates[k].old_text,
                        ScenarioUpdates[k].new_text, NoMetadata)
    \/ \E id \in 1..MaxCalls, answer \in Answers : IsDuplicateReturns(id, answer)
    \/ \E id \in 1..MaxCalls, answer \in Answers : HasConflictReturns(id, answer)

\* the TKF store under the calls of the acceptance scenario
ScenarioSpec == ScenarioInit /\ [][ScenarioNext]_vars

\* ------------------------------------------------------------------ properties

\* the trimmed new_text of the update logged by call i
TextOf(i) == strip(updates[i].new_text)

StoreFullCalls ==
    { i \in 1..Len(calls) : calls[i].outcome = "TKFStoreFullError" }

Rejections == {"REJECTED_DUPLICATE", "REJECTED_CONFLICT", "REJECTED_EMPTY"}

\* C1 as stated: the length of the update history equals the number of
\* add_update calls made, whatever their outcomes.
C1_HistoryCompleteness == Len(updates) = Len(calls)

\* C1 amended: the length of the update history equals the number of
\* add_update calls that did not raise the store-full error; rejected calls
\* and calls whose check failed are counted.
C1_HistoryCountsLoggedCalls ==
    Len(updates) = Len(calls) - Cardinality(StoreFullCalls)

\* a call was refused by the full store after a rejected call was logged
C1_Witness ==
    /\ StoreFullCalls # {}
    /\ \E i \in 1..Len(calls) : calls[i].outcome \in Rejections
    /\ \E i \in 1..Len(calls) : calls[i].outcome = "LLM_ERROR"

\* s with its leftmost occurrence of the non-empty text old replaced by new
RECURSIVE ReplaceFirst(_, _, _)
ReplaceFirst(s, old, new) ==
    IF s = <<>> THEN <<>>
    ELSE IF StartsWith(s, old)
         THEN new \o SubSeq(s, Len(old) + 1, Len(s))
         ELSE <<Head(s)>> \o ReplaceFirst(Tail(s), old, new)

\* C2: when the content contains the non-empty text S, a logged add_update
\* with old_text = S and a new_text T that is not blank ends REPLACED, the
\* content becomes the old content with one occurrence of S replaced by the
\* trimmed T and the rest unchanged, and neither check is invoked.
C2_ReplaceBypassesChecks ==
    [][ Len(updates') = Len(updates) + 1 =>
          LET u == updates'[Len(updates')]
              id == Len(calls')
          IN  ( /\ u.old_text # <<>>
                /\ Contains(full_content, u.old_text)
                /\ strip(u.new_text) # <<>> )
              => /\ calls'[id].outcome = "REPLACED"
                 /\ calls'[id].is_duplicate = "none"
                 /\ calls'[id].has_conflict = "none"
                 /\ full_content' =
                        ReplaceFirst(full_content, u.old_text, strip(u.new_text))
      ]_vars

\* C3: a logged add_update whose new_text is empty after trimming ends
\* REJECTED_EMPTY whatever its old_text, leaves the content untouched,
\* invokes no check and suspends on no call_llm.
C3_EmptyTextRejected ==
    [][ Len(updates') = Len(updates) + 1 =>
          LET u == updates'[Len(updates')]
              id == Len(calls')
          IN  strip(u.new_text) = <<>>
              => /\ calls'[id].outcome = "REJECTED_EMPTY"
                 /\ full_content' = full_content
                 /\ coroutines' = coroutines
                 /\ calls'[id].is_duplicate = "none"
                 /\ calls'[id].has_conflict = "none"
      ]_vars

\* the last call had a blank new_text and an old_text found in the content,
\* and was rejected as empty
C3_Witness ==
    /\ Len(calls) = Len(updates)
    /\ Len(calls) > 0
    /\ calls[Len(calls)].outcome = "REJECTED_EMPTY"
    /\ updates[Len(calls)].old_text # <<>>
    /\ strip(updates[Len(calls)].old_text) # <<>>
    /\ Contains(full_content, updates[Len(calls)].old_text)
    /\ DOMAIN coroutines = {}

\* C4: when the conflict check of call j answers false and another call i
\* that took the same snapshot has already passed both checks and appended,
\* j appends too, onto the content as it is now: the text of i stays and the
\* text of j follows it, although j was checked against the snapshot only.
C4_RaceAdmitsBoth ==
    [][ \A j \in DOMAIN coroutines : \A i \in 1..Len(calls) :
          ( /\ i # j
            /\ coroutines[j].await = "_has_conflict"
            /\ calls'[j].has_conflict = "false"
            /\ calls[i].outcome = "APPENDED"
            /\ calls[i].is_duplicate = "false"
            /\ calls[i].has_conflict = "false"
            /\ calls[i].current_content = calls[j].current_content )
          => /\ calls'[j].outcome = "APPENDED"
             /\ full_content' = AppendText(full_content, TextOf(j))
             /\ Contains(full_content, TextOf(i))
                    => Contains(full_content', TextOf(i))
      ]_vars

\* two calls with the same text, which their common non-blank snapshot does
\* not hold, both passed both checks and both appended: the content holds
\* the text twice, though the second duplicates what the first one left
C4_Witness ==
    \E i, j \in 1..Len(updates) :
        /\ i < j
        /\ calls[i].outcome = "APPENDED" /\ calls[j].outcome = "APPENDED"
        /\ calls[i].is_duplicate = "false" /\ calls[j].is_duplicate = "false"
        /\ calls[i].has_conflict = "false" /\ calls[j].has_conflict = "false"
        /\ calls[i].current_content = calls[j].current_content
        /\ strip(calls[i].current_content) # <<>>
        /\ TextOf(i) = TextOf(j)
        /\ ~Contains(calls[i].current_content, TextOf(j))
        /\ Contains(AppendText(calls[i].current_content, TextOf(i)), TextOf(j))
        /\ full_content =
               AppendText(AppendText(calls[i].current_content, TextOf(i)),
                          TextOf(j))

\* the duplicate check's answer when it is truthful: true exactly when the
\* snapshot already holds the text
TruthfulDuplicate(text, snapshot) ==
    IF Contains(snapshot, text) THEN "true" ELSE "false"

\* C5: when a call resubmits the text an earlier call appended, its snapshot
\* holds that text and its duplicate check answers truthfully, the call ends
\* REJECTED_DUPLICATE without changing the content: of the two submissions
\* only the first changed the content.
C5_IdempotentUnderDuplication ==
    [][ \A j \in DOMAIN coroutines : \A i \in 1..Len(calls) :
          ( /\ i < j
            /\ coroutines[j].await = "_is_duplicate"
            /\ calls'[j].is_duplicate \in {"true", "false"}
            /\ calls[i].outcome = "APPENDED"
            /\ TextOf(i) = TextOf(j)
            /\ Contains(calls[j].current_content, TextOf(j))
            /\ calls'[j].is_duplicate =
                   TruthfulDuplicate(TextOf(j), calls[j].current_content) )
          => /\ calls'[j].outcome = "REJECTED_DUPLICATE"
             /\ full_content' = full_content
             /\ calls[i].changed
             /\ ~calls'[j].changed
      ]_vars

\* the same update was submitted twice in a row, the first call returning
\* before the second was made: the first appended, the second was rejected
\* as a duplicate, and the content is what the first left
C5_Witness ==
    \E i \in 1..Len(updates) - 1 :
        /\ updates[i].old_text = <<>> /\ updates[i + 1].old_text = <<>>
        /\ updates[i].new_text = updates[i + 1].new_text
        /\ calls[i].outcome = "APPENDED"
        /\ calls[i].is_duplicate = "trivial"
        /\ calls[i + 1].outcome = "REJECTED_DUPLICATE"
        /\ calls[i + 1].current_content = TextOf(i)
        /\ full_content = TextOf(i)

\* C6: when an earlier update A was appended and the conflict check of a
\* later update B with an empty old_text answers true, B ends
\* REJECTED_CONFLICT and B leaves the content as it was.
C6_ConflictPrecedence ==
    [][ \A b \in DOMAIN coroutines : \A a \in 1..Len(calls) :
          ( /\ a < b
            /\ calls[a].outcome = "APPENDED"
            /\ updates[b].old_text = <<>>
            /\ coroutines[b].await = "_has_conflict"
            /\ calls'[b].has_conflict = "true" )
          => /\ calls'[b].outcome = "REJECTED_CONFLICT"
             /\ full_content' = full_content
             /\ ~calls'[b].changed
      ]_vars

\* A was appended, then B (a different text, empty old_text) was submitted,
\* passed the duplicate check and was rejected by the conflict check; the
\* content is still what A left
C6_Witness ==
    \E a \in 1..Len(updates) - 1 :
        LET b == a + 1
        IN  /\ calls[a].outcome = "APPENDED"
            /\ calls[a].is_duplicate = "trivial"
            /\ updates[b].old_text = <<>>
            /\ TextOf(b) # TextOf(a)
            /\ calls[b].is_duplicate = "false"
            /\ calls[b].has_conflict = "true"
            /\ calls[b].outcome = "REJECTED_CONFLICT"
            /\ full_content = TextOf(a)

\* C7: the entries of the update history are in the order in which their
\* add_update calls were made (an update's id is its call number).
C7_HistoryInCallOrder ==
    \A k \in 1..Len(updates) - 1 : updates[k].id < updates[k + 1].id

\* a call made later returned while an earlier call is still in its check
\* phase, and the earlier call's entry is first in the history
C7_Witness ==
    /\ Len(updates) >= 3
    /\ calls[2].outcome = "PENDING"
    /\ calls[3].outcome = "REJECTED_DUPLICATE"
    /\ updates[2].id = 2 /\ updates[3].id = 3

\* C8: the history never holds more than max_updates entries, and an
\* add_update call made when it holds max_updates entries raises the
\* store-full error and changes neither the history, the content, the lock
\* nor the suspended coroutines, and invokes no check.
C8_TKFCapacity ==
    /\ [](Len(updates) <= _max_updates)
    /\ [][ (Len(calls') = Len(calls) + 1 /\ Len(updates) >= _max_updates) =>
             /\ calls'[Len(calls')].outcome = "TKFStoreFullError"
             /\ calls'[Len(calls')].is_duplicate = "none"
             /\ calls'[Len(calls')].has_conflict = "none"
             /\ updates' = updates
             /\ full_content' = full_content
             /\ lock' = lock
             /\ coroutines' = coroutines
       ]_vars

\* a call was refused by the full store while another call was suspended
C8_Witness ==
    /\ Len(updates) = max_updates
    /\ StoreFullCalls # {}
    /\ DOMAIN coroutines # {}

\* C9: the primary sequence never holds more than max_events events, and an
\* add_event call made when it holds max_events events raises the store-full
\* error and leaves the primary sequence (nothing evicted) and the three
\* indices as they were.
C9_EventCapacity ==
    /\ [](Len(events) <= max_events)
    /\ [][ (Len(event_calls') = Len(event_calls) + 1
            /\ Len(events) >= max_events) =>
             /\ event_calls'[Len(event_calls')] = "EventStoreFullError"
             /\ events' = events
             /\ group_id_index' = group_id_index
             /\ persona_id_index' = persona_id_index
             /\ session_id_index' = session_id_index
       ]_vars

\* an add_event call was refused by the full repository
C9_Witness ==
    /\ Len(events) = max_events
    /\ Len(event_calls) > 0
    /\ event_calls[Len(event_calls)] = "EventStoreFullError"

\* the number of places of index_map that hold position p
Occurrences(index_map, p) ==
    Cardinality({ kj \in UNION { {k} \X (1..Len(index_map[k])) :
                                     k \in DOMAIN index_map } :
                  index_map[kj[1]][kj[2]] = p })

\* index_map is consistent with the primary sequence for the key read by
\* KeyOf: every stored position is valid, the event there carries the key it
\* is filed under, and every position is stored exactly once
IndexConsistent(index_map, KeyOf(_)) ==
    /\ \A k \in DOMAIN index_map : \A j \in 1..Len(index_map[k]) :
           /\ index_map[k][j] \in 0..(Len(events) - 1)
           /\ KeyOf(events[index_map[k][j] + 1]) = k
    /\ \A p \in 0..(Len(events) - 1) : Occurrences(index_map, p) = 1

GroupOf(e) == e.group_id
PersonaOf(e) == e.persona_id
SessionOf(e) == e.session_id

\* C10: after any sequence of add_event calls the group, persona and session
\* indices are consistent with the primary sequence.
C10_EventIndexConsistency ==
    /\ IndexConsistent(group_id_index, GroupOf)
    /\ IndexConsistent(persona_id_index, PersonaOf)
    /\ IndexConsistent(session_id_index, SessionOf)

\* the repository is full, a call has failed, two events share a group and
\* two events differ in persona
C10_Witness ==
    /\ Len(events) = max_events
    /\ \E i \in 1..Len(event_calls) : event_calls[i] = "EventStoreFullError"
    /\ \E k \in DOMAIN group_id_index : Len(group_id_index[k]) >= 2
    /\ Cardinality(DOMAIN persona_id_index) >= 2

\* C11: after any sequence of add_event calls, no two events held in the
\* repository have the same id.
C11_EventIdUnique ==
    \A i, j \in 1..Len(events) : i # j => events[i].id # events[j].id

PageArgs == (0 - MaxPageArg)..MaxPageArg

\* page is the contiguous run of seq from position offset (counted from 0)
\* of at most limit items, a negative offset or limit counting as 0
IsPageOf(page, seq, offset, limit) ==
    LET o == IF offset < 0 THEN 0 ELSE offset
        l == IF limit < 0 THEN 0 ELSE limit
        n == Len(seq) - o
    IN  /\ Len(page) = (IF l <= n THEN l ELSE IF n >= 0 THEN n ELSE 0)
        /\ \A i \in 1..Len(page) : page[i] = seq[o + i]

\* C12: for a store holding N items, get_events(offset, limit) and
\* get_updates(offset, limit) return total N and exactly the contiguous run of
\* items at positions offset..offset+limit-1 in insertion order, that is
\* min(limit, max(0, N - offset)) items; a negative offset or limit is taken
\* as 0 and an offset >= N gives an empty page.
C12_Pagination ==
    \A offset \in PageArgs, limit \in PageArgs :
        /\ GetEvents(offset, limit)[2] = Len(events)
        /\ IsPageOf(GetEvents(offset, limit)[1], events, offset, limit)
        /\ GetUpdates(offset, limit)[2] = Len(updates)
        /\ IsPageOf(GetUpdates(offset, limit)[1], updates, offset, limit)

\* both stores are full and hold distinguishable items; an inner page, a page
\* cut by the end, a page past the end and a page with a negative offset are
\* read
C12_Witness ==
    /\ Len(events) = max_events /\ Len(updates) = max_updates
    /\ events[1] # events[2] /\ events[2] # events[3]
    /\ GetEvents(1, 1)[1] = <<events[2]>>
    /\ GetEvents(2, MaxPageArg)[1] = <<events[3]>>
    /\ GetEvents(max_events, 1)[1] = <<>>
    /\ GetEvents(0 - 1, 2)[1] = <<events[1], events[2]>>
    /\ GetUpdates(1, 1)[1] = <<updates[2]>>
    /\ GetUpdates(0 - 2, 0 - 1)[1] = <<>>

\* a key no event carries
UnknownKey == "unknown"

\* the events of the primary sequence whose key, read by KeyOf, is k
EventsWithKey(KeyOf(_), k) == SelectSeq(events, LAMBDA e : KeyOf(e) = k)

\* C13: after any sequence of add_event calls, get_events_by_group_id(k),
\* get_events_by_persona_id(k) and get_events_by_session_id(k) return
\* exactly the events of the primary sequence whose key equals k, in
\* insertion order, and an empty list without error for a key never added.
C13_KeyedLookups ==
    /\ \A k \in GroupIds \cup {UnknownKey} :
           GetEventsByGroupId(k) =
               [raised |-> "none", value |-> EventsWithKey(GroupOf, k)]
    /\ \A k \in PersonaIds \cup {UnknownKey} :
           GetEventsByPersonaId(k) =
               [raised |-> "none", value |-> EventsWithKey(PersonaOf, k)]
    /\ \A k \in SessionIds \cup {UnknownKey} :
           GetEventsBySessionId(k) =
               [raised |-> "none", value |-> EventsWithKey(SessionOf, k)]

\* group g1 holds the first and the third event with the second in another
\* group, and no event of persona p2 was added: the lookup of g1 returns the
\* two in order and the lookup of p2 returns an empty list
C13_Witness ==
    /\ Len(events) = 3
    /\ events[1].group_id = "g1" /\ events[2].group_id = "g2"
    /\ events[3].group_id = "g1" /\ events[1] # events[3]
    /\ GetEventsByGroupId("g1").value = <<events[1], events[3]>>
    /\ "p2" \notin DOMAIN persona_id_index
    /\ GetEventsByPersonaId("p2") = [raised |-> "none", value |-> <<>>]

\* update's metadata contains every key of the filter, mapped to the
\* filter's value
ContainsAll(update, metadata_filter) ==
    \A key \in DOMAIN metadata_filter :
        /\ key \in DOMAIN update.metadata
        /\ update.metadata[key] = metadata_filter[key]

\* C14: get_updates_by_metadata_filter({}) returns every update, and for any
\* filter it returns exactly the updates whose metadata contains every filter
\* key mapped to the filter's value, in history order; an update whose
\* metadata lacks a filter key never matches, whatever the filter's value.
C14_MetadataFilter ==
    /\ GetUpdatesByMetadataFilter(<<>>) = updates
    /\ \A metadata_filter \in MetadataFilters :
           GetUpdatesByMetadataFilter(metadata_filter) =
               SelectSeq(updates,
                         LAMBDA update : ContainsAll(update, metadata_filter))

\* the seed call k completes in this step
SeedCompletes(k) ==
    seeds[k].outcome = "PENDING" /\ seeds'[k].outcome = "SEEDED"

\* C15 as stated: when seed completes, the full content equals the
\* formatter's result, the update history is empty and neither check was
\* invoked, whatever the store held before.
C15_SeedBaseline ==
    [][ \A k \in 1..Len(seeds) : SeedCompletes(k) =>
          /\ full_content' = seeds'[k].final_output
          /\ updates' = <<>>
          /\ calls' = calls /\ coroutines' = coroutines
      ]_vars

\* C15, amended: when seed completes, the full content equals the
\* formatter's result, the update history is what it was before the call
\* (empty on a fresh store) and neither check was invoked.
C15_SeedKeepsHistory ==
    [][ \A k \in 1..Len(seeds) : SeedCompletes(k) =>
          /\ full_content' = seeds'[k].final_output
          /\ updates' = updates
          /\ calls' = calls /\ coroutines' = coroutines
      ]_vars

\* a seed completed on a store that held an appended update: the content is
\* the formatter's output alone and the history still holds the update
C15_Witness ==
    \E k \in 1..Len(seeds) :
        /\ seeds[k].outcome = "SEEDED"
        /\ seeds[k].final_output = <<"c">>
        /\ full_content = <<"c">>
        /\ Len(updates) >= 1
        /\ calls[1].outcome = "APPENDED"

\* raw_content is a JSON list
IsJsonList(raw_content) == strip(raw_content) = <<"[", "]">>

\* C16: seed given a pre-formatted string that is not a JSON list completes
\* without error and stores content for it, and the formatter call is made
\* only for the JSON-list form.
C16_SeedInputForms ==
    \A k \in 1..Len(seeds) :
        IF IsJsonList(seeds[k].raw_content)
        THEN seeds[k].formatter_called
        ELSE seeds[k].outcome = "SEEDED" /\ ~seeds[k].formatter_called

\* a check of the add_update call id fails in this step
CheckFails(id) ==
    \/ calls[id].is_duplicate = "pending" /\ calls'[id].is_duplicate = "error"
    \/ calls[id].has_conflict = "pending" /\ calls'[id].has_conflict = "error"

\* C17: if a call_llm made by add_update during the duplicate or the
\* conflict check fails, add_update propagates the error, the update's entry
\* stays in the history, the full content is not modified by that call, and
\* the lock is not left held.
C17_FailedCheckRejects ==
    [][ \A id \in DOMAIN coroutines : CheckFails(id) =>
          /\ calls'[id].outcome = "LLM_ERROR"
          /\ id \notin DOMAIN coroutines'
          /\ updates' = updates
          /\ \E i \in 1..Len(updates') : updates'[i].id = id
          /\ full_content' = full_content
          /\ ~calls'[id].changed
          /\ lock' = "unlocked"
      ]_vars

\* one add_update call failed in its duplicate check and another in its
\* conflict check; both are in the history
C17_Witness ==
    \E i, j \in 1..Len(calls) :
        /\ calls[i].outcome = "LLM_ERROR" /\ calls[i].is_duplicate = "error"
        /\ calls[j].outcome = "LLM_ERROR" /\ calls[j].has_conflict = "error"
        /\ \E m, n \in 1..Len(updates) :
               updates[m].id = i /\ updates[n].id = j
        /\ lock = "unlocked"

\* the add_update calls that were rejected as a duplicate or a conflict
RejectedCalls ==
    { id \in 1..Len(calls) :
        calls[id].outcome \in {"REJECTED_DUPLICATE", "REJECTED_CONFLICT"} }

\* the update_tkf calls that were rejected by the tool's own checks
SkippedToolCalls ==
    { k \in 1..Len(tool_calls) : tool_calls[k].await = "returned False" }

\* the history holds the entry of the add_update call id
Logged(id) == \E i \in 1..Len(updates) : updates[i].id = id

\* C18: every admission attempt whose outcome is duplicate or conflict adds
\* one entry to the update history, whether it is submitted directly to
\* add_update or through the update_tkf tool.
C18_RejectionsLogged ==
    /\ \A id \in RejectedCalls : Logged(id)
    /\ \A k \in SkippedToolCalls : Logged(tool_calls[k].add_update)
    /\ Len(updates) >= Cardinality(RejectedCalls) + Cardinality(SkippedToolCalls)

\* the add_update call of the update_tkf call k appended or replaced
ChangedContent(k) ==
    /\ tool_calls[k].add_update # 0
    /\ calls[tool_calls[k].add_update].outcome \in {"APPENDED", "REPLACED"}

\* C19: update_tkf returns True if and only if that call changed the full
\* content (an append or a replacement happened), and False otherwise.
C19_ReturnValueTruthful ==
    \A k \in 1..Len(tool_calls) :
        /\ ReturnValue(k) = "True" => ChangedContent(k)
        /\ ReturnValue(k) = "False" => ~ChangedContent(k)

\* the candidates of the batch that the validator accepted
RECURSIVE Accepted(_, _)
Accepted(knowledge_list, answers) ==
    IF knowledge_list = <<>> \/ answers = <<>> THEN <<>>
    ELSE (IF Head(answers) = "true" THEN <<Head(knowledge_list)>> ELSE <<>>)
         \o Accepted(Tail(knowledge_list), Tail(answers))

\* C20: in generate_knowledge, a failure of the validator call for one
\* candidate rejects only that candidate; the remaining candidates of the
\* batch are still validated and the accepted ones are returned.
C20_ValidatorFailClosed ==
    (\E i \in 1..Len(generator.answers) : generator.answers[i] = "error")
    => /\ generator.pc \in {"_is_valid_knowledge_item", "returned"}
       /\ generator.pc = "returned" =>
              /\ Len(generator.answers) = Len(generator.knowledge_list)
              /\ generator.validated_knowledge =
                     Accepted(generator.knowledge_list, generator.answers)

\* the positions of the run's personas that the directory knows
KnownPositions ==
    { j \in 1..Len(workflow.event_by_persona) :
        workflow.event_by_persona[j].persona_id \in KnownPersonas }

\* the place in knowledge_list of the knowledge of the persona at position j
\* when every known persona before it has produced its own
PlaceOf(j) == Cardinality({ k \in KnownPositions : k <= j })

\* C21: within one run, an error raised in one persona's knowledge pipeline
\* does not abort the pipelines of the other personas of that run; their
\* validated knowledge is still produced and submitted.
C21_PersonaIsolation ==
    (workflow.pc = "raised" /\ workflow.failed # "none") =>
        \A j \in KnownPositions :
            workflow.event_by_persona[j].persona_id # workflow.failed =>
                /\ PlaceOf(j) <= Len(workflow.knowledge_list)
                /\ PlaceOf(j) <= workflow.submitted

\* text contains the letters t, r, u, e in a row, in either case
HasTrue(text) ==
    \E i \in 1..(Len(text) - 3) :
        /\ text[i] \in {"t", "T"} /\ text[i + 1] \in {"r", "R"}
        /\ text[i + 2] \in {"u", "U"} /\ text[i + 3] \in {"e", "E"}

\* the candidates whose response has "true" in it, in the candidates' order
RECURSIVE WithTrueResponse(_, _)
WithTrueResponse(knowledge_list, responses) ==
    IF knowledge_list = <<>> \/ responses = <<>> THEN <<>>
    ELSE (IF HasTrue(Head(responses)) THEN <<Head(knowledge_list)>> ELSE <<>>)
         \o WithTrueResponse(Tail(knowledge_list), Tail(responses))

\* C22: generate_knowledge returns exactly the candidates whose validator
\* response contains the substring "true" case-insensitively, each once, in
\* the order the generator produced them.
C22_ValidationFilter ==
    generator.pc = "returned" =>
        /\ Len(generator.responses) = Len(generator.knowledge_list)
        /\ generator.validated_knowledge =
               WithTrueResponse(generator.knowledge_list, generator.responses)

\* a batch of three candidates, the first and the third the same, has
\* returned: the responses were "True", "false" and "untrue", and the first
\* and the third candidate are returned
C22_Witness ==
    /\ generator.pc = "returned"
    /\ generator.knowledge_list = <<"k2", "k1", "k2">>
    /\ generator.responses = << <<"T", "r", "u", "e">>,
                                <<"f", "a", "l", "s", "e">>,
                                <<"u", "n", "t", "r", "u", "e">> >>
    /\ generator.validated_knowledge = <<"k2", "k2">>

\* what the checks answer in the scenario: the second call is flagged by the
\* duplicate check, the third by the conflict check
ScenarioAnswers ==
    << [is_duplicate |-> "trivial", has_conflict |-> "trivial"],
       [is_duplicate |-> "true", has_conflict |-> "none"],
       [is_duplicate |-> "false", has_conflict |-> "true"],
       [is_duplicate |-> "none", has_conflict |-> "none"] >>

ScenarioOutcomes ==
    <<"APPENDED", "REJECTED_DUPLICATE", "REJECTED_CONFLICT", "REPLACED">>

ScenarioContents ==
    <<ShortForms, ShortForms, ShortForms, StronglyShortForms>>

\* the first n calls made are the first n calls of the scenario, the first
\* n - 1 of them with the answers and outcomes of the scenario, and the n-th
\* has finished
ScenarioPlayed(n) ==
    /\ n \in 1..Len(ScenarioUpdates)
    /\ Len(calls) = n /\ Len(updates) >= n /\ DOMAIN coroutines = {}
    /\ \A k \in 1..n :
           /\ updates[k].old_text = ScenarioUpdates[k].old_text
           /\ updates[k].new_text = ScenarioUpdates[k].new_text
    /\ \A k \in 1..(n - 1) : calls[k].outcome = ScenarioOutcomes[k]
    /\ calls[n].outcome \notin {"LLM_ERROR"}
    /\ calls[n].is_duplicate \in {ScenarioAnswers[n].is_duplicate, "none",
                                  "trivial"}
    /\ calls[n].has_conflict \in {ScenarioAnswers[n].has_conflict, "none",
                                  "trivial"}

\* C23: from empty content, appending "Users prefer short forms" ends
\* APPENDED with that text as content; appending it again, flagged by the
\* duplicate check, ends REJECTED_DUPLICATE and appending "Users prefer long
\* forms", flagged by the conflict check, ends REJECTED_CONFLICT, both with
\* the content unchanged; replacing the first text by "Users strongly prefer
\* short forms" ends REPLACED with that text as content, and the history then
\* has four entries.
C23_AcceptanceScenario ==
    \A n \in 1..Len(ScenarioUpdates) :
        ScenarioPlayed(n) =>
            /\ calls[n].outcome = ScenarioOutcomes[n]
            /\ full_content = ScenarioContents[n]
            /\ Len(updates) = n

\* the four calls of the scenario have been made and the fourth has replaced
\* the text
C23_Witness ==
    /\ ScenarioPlayed(4)
    /\ calls[4].outcome = "REPLACED"
    /\ full_content = StronglyShortForms
    /\ Len(updates) = 4

\* the trimmed new_text of the update call id has logged by the end of this
\* step
NewTextOf(id) == strip(updates'[id].new_text)

\* the calls that end APPENDED in this step
Appending ==
    { id \in 1..Len(calls') :
        /\ calls'[id].outcome = "APPENDED"
        /\ id \in 1..Len(calls) => calls[id].outcome # "APPENDED" }

\* C24: the final append extends the content the store holds when the lock
\* is re-acquired, not the snapshot: right after the append of a call the
\* content holds the text of the call, and it still begins with all that the
\* store held just before, whatever other calls appended or replaced since
\* the snapshot was taken.
C24_NoLostUpdate ==
    [][ \A id \in Appending :
          /\ Contains(full_content', NewTextOf(id))
          /\ StartsWith(full_content', rstrip(full_content))
          /\ Len(full_content') >=
                 Len(rstrip(full_content)) + Len(NewTextOf(id))
      ]_vars

\* call j took its snapshot, a later call i then replaced text of the
\* content, and j appended after that: the content is the replaced content
\* with the text of j at its end, not the snapshot of j with that text
C24_Witness ==
    \E j \in 1..Len(updates) : \E i \in (j + 1)..Len(updates) :
        /\ calls[j].outcome = "APPENDED"
        /\ calls[j].has_conflict = "false"
        /\ calls[i].outcome = "REPLACED" /\ calls[i].changed
        /\ full_content =
               AppendText(ReplaceText(calls[j].current_content,
                                      updates[i].old_text, TextOf(i)),
                          TextOf(j))
        /\ full_content # AppendText(calls[j].current_content, TextOf(j))

\* the calls that take the explicit replace path in this step
Replacing ==
    { id \in (Len(calls) + 1)..Len(calls') : calls'[id].outcome = "REPLACED" }

\* the content with a blank line and the text after it
WithBlankLine(content, text) ==
    IF content = <<>> THEN text
    ELSE rstrip(content) \o <<"\n", "\n">> \o text

\* C25: a step of an add_update call that does not take the explicit
\* replace path leaves the content unchanged, or equal to the content with
\* its trailing whitespace trimmed, a blank line and the trimmed new_text of
\* the call (the trimmed new_text alone when the content was empty).
C25_AppendNeverOverwrites ==
    [][ Replacing = {} =>
          \/ full_content' = full_content
          \/ \E id \in Appending :
                 full_content' = WithBlankLine(full_content, NewTextOf(id))
      ]_vars

\* a call has appended its text, through both checks, onto a content that
\* was not empty
C25_Witness ==
    \E id \in 1..Len(updates) :
        /\ calls[id].outcome = "APPENDED"
        /\ calls[id].is_duplicate = "false"
        /\ calls[id].current_content # <<>>
        /\ \A j \in 1..Len(updates) : j # id => ~calls[j].changed \/ j < id
        /\ ~Contains(calls[id].current_content, TextOf(id))
        /\ Contains(full_content, TextOf(id))

\* the seed calls that await the formatter
PendingSeeds == { k \in 1..Len(seeds) : seeds[k].outcome = "PENDING" }

\* C26: while a duplicate check, a conflict check or the seed formatter is
\* pending, no task holds the lock of the store: get_full_content and the
\* first locked phase of another add_update find the lock free.
C26_LockNotHeldAcrossCalls ==
    (DOMAIN coroutines # {} \/ PendingSeeds # {}) => lock = "unlocked"

\* a seed awaits the formatter and two add_update calls await a check: the
\* later of the two went through its first locked phase while the earlier
\* one was in its check phase
C26_Witness ==
    /\ PendingSeeds # {}
    /\ \E i, j \in DOMAIN coroutines :
           /\ i < j
           /\ coroutines[i].await = "_has_conflict"
           /\ coroutines[j].await = "_is_duplicate"
    /\ lock = "unlocked"

\* the seed calls that store the formatter's output in this step
Seeding ==
    { k \in 1..Len(seeds') :
        seeds'[k].outcome = "SEEDED" /\ seeds[k].outcome = "PENDING" }

\* C27: every change of the content is one step of one task that finds the
\* lock free and leaves it free: one whole append, one whole replacement or
\* one seed assignment.  A task that is in its check phase before and after
\* the step is not the one that changed the content.
C27_ContentChangesAtomically ==
    [][ /\ full_content' # full_content =>
             /\ lock = "unlocked" /\ lock' = "unlocked"
             /\ Cardinality(Appending) + Cardinality(Replacing)
                    + Cardinality(Seeding) = 1
             /\ (Appending \cup Replacing) \cap DOMAIN coroutines' = {}
             /\ \A id \in Appending :
                    full_content' = WithBlankLine(full_content, NewTextOf(id))
             /\ \A id \in Replacing :
                    full_content' = ReplaceText(full_content,
                                        updates'[id].old_text, NewTextOf(id))
        /\ \A k \in Seeding : full_content' = seeds'[k].final_output
      ]_vars

\* the content has changed in each of the three ways, the append after both
\* checks, and a call is in its check phase
C27_Witness ==
    /\ \E i, j \in 1..Len(updates) :
           /\ calls[i].outcome = "APPENDED" /\ calls[i].changed
           /\ calls[i].has_conflict = "false"
           /\ calls[j].outcome = "REPLACED" /\ calls[j].changed
    /\ \E k \in 1..Len(seeds) : seeds[k].outcome = "SEEDED"
    /\ DOMAIN coroutines # {}

\* how an add_update call ends
Outcomes ==
    {"APPENDED", "REPLACED", "REJECTED_DUPLICATE", "REJECTED_CONFLICT",
     "REJECTED_EMPTY", "LLM_ERROR", "TKFStoreFullError"}

\* C28: when every service call returns or fails, every add_update call and
\* every seed call ends (time and again all the calls made have ended); a
\* call ends with one outcome, which then stays, and each of its checks is
\* answered once; the lock is free whenever no task is running, so no call
\* waits for it for ever.
C28_EveryCallEnds ==
    /\ []<>(/\ \A id \in 1..Len(calls) : calls[id].outcome \in Outcomes
             /\ PendingSeeds = {})
    /\ [][ \A id \in 1..Len(calls) :
             /\ calls[id].outcome \in Outcomes =>
                    calls'[id] = calls[id] /\ id \notin DOMAIN coroutines'
             /\ calls[id].is_duplicate \in Answers =>
                    calls'[id].is_duplicate = calls[id].is_duplicate
             /\ calls[id].has_conflict \in Answers =>
                    calls'[id].has_conflict = calls[id].has_conflict
         ]_vars
    /\ [](lock = "unlocked")
    /\ [](\A id \in 1..Len(calls) :
             calls[id].outcome \in Outcomes \cup {"PENDING"}
             /\ (calls[id].outcome = "PENDING" <=> id \in DOMAIN coroutines))

\* every call the bounds allow has been made and has ended, a seed has
\* stored its text, and among the calls one was rejected as a duplicate, one
\* as a conflict, and one found the store full
C28_Witness ==
    /\ Len(calls) = MaxCalls /\ DOMAIN coroutines = {}
    /\ \E k \in 1..Len(seeds) : seeds[k].outcome = "SEEDED"
    /\ \E i, j, n \in 1..Len(calls) :
           /\ calls[i].outcome = "REJECTED_DUPLICATE"
           /\ calls[j].outcome = "REJECTED_CONFLICT"
           /\ calls[n].outcome = "TKFStoreFullError"

\* C29: in add_update the duplicate check and the conflict check are issued
\* against the same snapshot and are in flight at the same time: while the
\* duplicate check of a call is pending, so is its conflict check, and a call
\* whose duplicate check was answered had its conflict check issued too.
C29_ChecksConcurrent ==
    \A id \in 1..Len(calls) :
        /\ calls[id].is_duplicate = "pending" =>
               calls[id].has_conflict = "pending"
        /\ calls[id].is_duplicate \in Answers =>
               calls[id].has_conflict \in Answers \cup {"pending"}

\* calls i and j took the same snapshot and passed both checks, and the
\* content is that snapshot with the text of j and then the text of i after
\* it, two different texts: j was appended before i
AppendedBefore(j, i) ==
    /\ calls[i].outcome = "APPENDED" /\ calls[j].outcome = "APPENDED"
    /\ calls[i].has_conflict = "false" /\ calls[j].has_conflict = "false"
    /\ calls[i].current_content = calls[j].current_content
    /\ TextOf(i) # TextOf(j)
    /\ full_content =
           AppendText(AppendText(calls[i].current_content, TextOf(j)),
                      TextOf(i))

\* C30: the history keeps the order of the calls also when the appends
\* happen in another order: when call A was made before call B and the text
\* of B was appended before the text of A, the entry of A still comes before
\* the entry of B in the history.
C30_OutcomeOrderCanDiffer ==
    \A A, B \in 1..Len(updates) :
        (A < B /\ AppendedBefore(B, A)) =>
            /\ updates[A].id = A /\ updates[B].id = B
            /\ \E k \in 1..Len(full_content) :
                   /\ SubSeq(full_content, k, Len(full_content)) = TextOf(A)
                   /\ Contains(SubSeq(full_content, 1, k - 1), TextOf(B))

\* call A was made and logged before call B, with another text, and the text
\* of B was appended before the text of A: the content has the two texts in
\* the other order than the history
C30_Witness ==
    \E A, B \in 1..Len(updates) :
        /\ A < B /\ updates[A].id < updates[B].id
        /\ AppendedBefore(B, A)
        /\ full_content #
               AppendText(AppendText(calls[A].current_content, TextOf(A)),
                          TextOf(B))

\* the calls made and logged in this step
Logging ==
    { id \in (Len(calls) + 1)..Len(calls') : Len(updates') = Len(updates) + 1 }

\* C31: an add_update call with a non-empty trimmed new_text and an empty
\* old_text that finds the content empty makes no service call: both checks
\* count as false without one, the call is not suspended, and it ends
\* APPENDED with the content equal to the trimmed new_text.
C31_EmptySnapshotAdmits ==
    [][ \A id \in Logging :
          ( /\ full_content = <<>>
            /\ updates'[id].old_text = <<>>
            /\ NewTextOf(id) # <<>> )
          => /\ calls'[id].outcome = "APPENDED"
             /\ calls'[id].is_duplicate = "trivial"
             /\ calls'[id].has_conflict = "trivial"
             /\ calls'[id].current_content = <<>>
             /\ id \notin DOMAIN coroutines'
             /\ full_content' = NewTextOf(id)
      ]_vars

\* the first call, with a text that has whitespace around it and no
\* old_text, was appended to the empty content without a service call
C31_Witness ==
    /\ Len(calls) = 1 /\ Len(updates) = 1
    /\ updates[1].old_text = <<>>
    /\ updates[1].new_text # TextOf(1)
    /\ calls[1].outcome = "APPENDED"
    /\ calls[1].is_duplicate = "trivial" /\ calls[1].has_conflict = "trivial"
    /\ full_content = TextOf(1)

\* call id is made in this step with a new_text to add and an old_text that
\* is not empty and whose trimmed form the content does not hold
SubmitsUnmatched(id) ==
    /\ id \in Logging
    /\ NewTextOf(id) # <<>>
    /\ updates'[id].old_text # <<>>
    /\ ~Contains(full_content, strip(updates'[id].old_text))

\* call id, made with an old_text, is in its check phase
CheckingUnmatched(id) ==
    /\ id \in DOMAIN coroutines
    /\ updates[id].old_text # <<>>

\* C32: an add_update call whose old_text is not empty and, trimmed, is not
\* in the content at submission never ends REPLACED: it takes the content as
\* its snapshot and goes through the two checks; when both are false its
\* new_text is appended, and otherwise the call leaves the content as it is.
C32_UnmatchedOldTextFallsThrough ==
    [][ \A id \in 1..Len(calls') :
          /\ SubmitsUnmatched(id) =>
                 /\ calls'[id].outcome \in {"PENDING", "APPENDED"}
                 /\ calls'[id].current_content = full_content
                 /\ calls'[id].outcome = "PENDING" =>
                        id \in DOMAIN coroutines' /\ full_content' = full_content
                 /\ calls'[id].outcome = "APPENDED" =>
                        /\ calls'[id].is_duplicate = "trivial"
                        /\ calls'[id].has_conflict = "trivial"
                        /\ full_content' =
                               WithBlankLine(full_content, NewTextOf(id))
          /\ CheckingUnmatched(id) =>
                 /\ calls'[id].outcome # "REPLACED"
                 /\ calls'[id].outcome = "APPENDED" =>
                        /\ calls'[id].is_duplicate = "false"
                        /\ calls'[id].has_conflict = "false"
                        /\ full_content' =
                               WithBlankLine(full_content, NewTextOf(id))
                 /\ calls'[id].outcome \notin {"APPENDED", "PENDING"} =>
                        /\ full_content' = full_content
                        /\ ~ /\ calls'[id].is_duplicate = "false"
                              /\ calls'[id].has_conflict = "false"
      ]_vars

\* a call whose old_text was not in the content went through both checks
\* and was appended, and another such call was rejected
C32_Witness ==
    \E i, j \in 1..Len(updates) :
        /\ strip(updates[i].old_text) # <<>>
        /\ ~Contains(calls[i].current_content, strip(updates[i].old_text))
        /\ calls[i].outcome = "APPENDED"
        /\ calls[i].has_conflict = "false"
        /\ strip(updates[j].old_text) # <<>>
        /\ calls[j].outcome \in {"REJECTED_DUPLICATE", "REJECTED_CONFLICT"}

\* C33: an add_update call whose old_text consists of whitespace only and
\* whose new_text is not blank leaves the content unchanged or with the
\* new_text added once at its end (with or without a blank line before it);
\* the new_text is put nowhere else in the content.
C33_WhitespaceOldTextHarmless ==
    [][ \A id \in Logging :
          ( /\ updates'[id].old_text # <<>>
            /\ strip(updates'[id].old_text) = <<>>
            /\ NewTextOf(id) # <<>> )
          => \/ full_content' = full_content
             \/ full_content' = WithBlankLine(full_content, NewTextOf(id))
             \/ full_content' = rstrip(full_content) \o NewTextOf(id)
             \/ full_content' = full_content \o NewTextOf(id)
      ]_vars

\* the update_tkf calls whose own checks are answered, without an error, in
\* this step
Dispatching ==
    { k \in 1..Len(tool_calls) :
        /\ tool_calls[k].await = "gather"
        /\ tool_calls'[k].await \notin {"gather", "raised"} }

\* C34: update_tkf hands every request to add_update, and what it does to
\* the content is what the direct add_update call does: a replacement whose
\* old_text is in the content is applied whatever the duplicate and the
\* conflict check answer.
C34_OrchestratorDispatches ==
    [][ \A k \in Dispatching :
          LET call == tool_calls[k]
          IN  /\ tool_calls'[k].add_update # 0
              /\ ( /\ ShouldReplace(call.old_text, full_content)
                    /\ strip(call.new_text) # <<>>
                    /\ ~IsFull(updates) )
                 => full_content' = ReplaceText(full_content, call.old_text,
                                                strip(call.new_text))
      ]_vars

\* C35: the history only grows at its end: in every step of add_update,
\* whatever its outcome, and of seed, the history before the step is a
\* prefix of the history after it, and it grows by one entry at most.
C35_HistoryAppendOnly ==
    [][ /\ Len(updates') \in {Len(updates), Len(updates) + 1}
        /\ SubSeq(updates', 1, Len(updates)) = updates
      ]_vars

\* the history is full, after an append, a replacement, a rejection and a
\* seed that stored its text
C35_Witness ==
    /\ Len(updates) = _max_updates
    /\ \E i, j, n \in 1..Len(updates) :
           /\ calls[i].outcome = "APPENDED"
           /\ calls[j].outcome = "REPLACED"
           /\ calls[n].outcome \in {"REJECTED_DUPLICATE", "REJECTED_CONFLICT"}
    /\ \E k \in 1..Len(seeds) : seeds[k].outcome = "SEEDED"

\* the response the generator at work received is not a JSON list once its
\* fences are stripped
MalformedGeneration ==
    /\ generator.llm_response # <<>>
    /\ ~IsJsonItemList(StripFences(generator.llm_response))

\* C36: when the generator's response is not valid JSON after fence
\* stripping, generate_knowledge raises for the batch of that persona: no
\* candidate of the batch is validated or returned, the run has no knowledge
\* entry of that persona and hands no text to the orchestrator, its only way
\* to the TKF, whose content and history are as they were.
C36_MalformedGenerationFatal ==
    MalformedGeneration =>
        /\ generator.pc = "raised"
        /\ generator.knowledge_list = <<>>
        /\ generator.responses = <<>> /\ generator.answers = <<>>
        /\ generator.validated_knowledge = <<>>
        /\ workflow.pc = "raised"
        /\ workflow.failed =
               workflow.event_by_persona[workflow.p].persona_id
        /\ Len(workflow.knowledge_list) = PlaceOf(workflow.p) - 1
        /\ workflow.submitted = 0
        /\ updates = <<>> /\ full_content = <<>>

\* the generator of the second known persona of a run received prose, after
\* the first persona's batch gave a knowledge entry
C36_Witness ==
    /\ MalformedGeneration
    /\ generator.llm_response = <<"prose">>
    /\ generator.batch = 2
    /\ Len(workflow.knowledge_list) = 1
    /\ workflow.knowledge_list[1] # <<>>
    /\ workflow.pc = "raised"

\* the events of evts whose persona is persona_id, in their order
EventsOfPersona(evts, persona_id) ==
    SelectSeq(evts, LAMBDA event : event.persona_id = persona_id)

\* the place of the first event of persona_id in evts
FirstOf(evts, persona_id) ==
    CHOOSE i \in 1..Len(evts) :
        /\ evts[i].persona_id = persona_id
        /\ \A j \in 1..(i - 1) : evts[j].persona_id # persona_id

\* parts is evts partitioned by persona id: one part for each persona that
\* has events, the parts in the order in which the personas first occur,
\* each part holding the events of its persona in their order
IsPartitionByPersona(parts, evts) ==
    /\ \A i \in 1..Len(evts) :
           \E j \in 1..Len(parts) : parts[j].persona_id = evts[i].persona_id
    /\ \A j \in 1..Len(parts) :
           /\ parts[j].events # <<>>
           /\ parts[j].events = EventsOfPersona(evts, parts[j].persona_id)
    /\ \A j, k \in 1..Len(parts) :
           j < k => FirstOf(evts, parts[j].persona_id)
                        < FirstOf(evts, parts[k].persona_id)

\* the persona loop of the run has ended without an error
PersonaLoopDone ==
    \/ workflow.pc \in {"Runner.run", "returned"}
    \/ workflow.pc = "raised" /\ workflow.failed = "none"

\* C37: a run partitions the events of its group by persona id, in the order
\* of insertion; a persona the directory does not know gets no generator and
\* no knowledge entry and does not end the run: when no pipeline fails, the
\* loop ends with one generator call and one knowledge entry for each known
\* persona.
C37_UnknownPersonaSkipped ==
    /\ [][ (workflow.pc = "idle" /\ workflow'.pc # "idle") =>
             \E group_id \in GroupIds :
                 IsPartitionByPersona(workflow'.event_by_persona,
                                      GetEventsByGroupId(group_id).value)
         ]_vars
    /\ [](workflow.pc = "generate_knowledge" =>
             /\ workflow.p \in KnownPositions
             /\ generator.batch = PlaceOf(workflow.p)
             /\ Len(workflow.knowledge_list) = PlaceOf(workflow.p) - 1)
    /\ [](workflow.failed # UnknownPersona)
    /\ [](PersonaLoopDone =>
             /\ generator.batch = Cardinality(KnownPositions)
             /\ Len(workflow.knowledge_list) = Cardinality(KnownPositions))

\* a run over the events of a known persona, of an unknown one and of the
\* first again has returned with the one knowledge entry of the known persona
C37_Witness ==
    /\ workflow.pc = "returned"
    /\ Len(workflow.event_by_persona) = 2
    /\ workflow.event_by_persona[1].persona_id \in KnownPersonas
    /\ Len(workflow.event_by_persona[1].events) = 2
    /\ workflow.event_by_persona[2].persona_id = UnknownPersona
    /\ Len(events) = 3 /\ events[2].persona_id = UnknownPersona
    /\ Len(workflow.knowledge_list) = 1

\* C38: the formatter runs without the lock and its output is assigned
\* under the lock: when seed completes, the content is exactly the
\* formatter's output.  The text of an add_update call that changed the
\* content before, while the formatter was at work, is in the content only so
\* far as the output holds it, and the update of the call stays in the
\* history.
C38_SeedOverwritesWholesale ==
    [][ \A k \in 1..Len(seeds) : SeedCompletes(k) =>
          /\ lock = "unlocked"
          /\ full_content' = seeds'[k].final_output
          /\ \A id \in 1..Len(updates) :
                 /\ updates'[id] = updates[id]
                 /\ ( /\ calls[id].changed
                       /\ ~Contains(seeds'[k].final_output, TextOf(id)) )
                    => ~Contains(full_content', TextOf(id))
      ]_vars

\* after the seed call, one add_update call appended a text and another
\* replaced it, and then the seed completed: the content is the formatter's
\* output, without those texts, and the history holds both updates
C38_Witness ==
    /\ Len(seeds) = 1 /\ seeds[1].outcome = "SEEDED"
    /\ full_content = seeds[1].final_output
    /\ \E i, j \in 1..Len(updates) :
           /\ calls[i].outcome = "APPENDED" /\ calls[i].changed
           /\ calls[j].outcome = "REPLACED" /\ calls[j].changed
           /\ ~Contains(full_content, TextOf(i))
           /\ ~Contains(full_content, TextOf(j))

====
